---- MODULE Spec2Model ----
(***************************************************************************)
(* A model of the megatron-controls script interpreter: the line           *)
(* classifier and tokenizer, the loop resolver, the execution engine       *)
(* (execute_script / handle_loop / execute_block), the session commands    *)
(* that change control flow (stop, exit, run, failif) and the              *)
(* fail-condition callback.                                                *)
(*                                                                         *)
(* A script line is a sequence of one-character strings, so that the       *)
(* regular expressions and string tests of the source are modelled by      *)
(* what they do to the characters.                                         *)
(***************************************************************************)
EXTENDS Integers, Sequences, FiniteSets, TLC

(* ------------------------------------------------------------------ *)
(* Characters and lines                                                *)
(* ------------------------------------------------------------------ *)

\* str.strip() and the regex class \s: the whitespace of the modelled lines.
Whitespace == {" ", "\t", "\n"}

\* The regex class \d.
Digits == {"0", "1", "2", "3", "4", "5", "6", "7", "8", "9"}

\* str.lower() / re.IGNORECASE on the letters the line tests look at.
Lower(c) ==
    CASE c = "L" -> "l"
      [] c = "N" -> "n"
      [] c = "T" -> "t"
      [] OTHER -> c

DigitVal(c) ==
    CASE c = "0" -> 0 [] c = "1" -> 1 [] c = "2" -> 2 [] c = "3" -> 3
      [] c = "4" -> 4 [] c = "5" -> 5 [] c = "6" -> 6 [] c = "7" -> 7
      [] c = "8" -> 8 [] c = "9" -> 9

RECURSIVE LStrip(_)
LStrip(s) ==
    IF s # <<>> /\ Head(s) \in Whitespace THEN LStrip(Tail(s)) ELSE s

RECURSIVE RStrip(_)
RStrip(s) ==
    IF s # <<>> /\ s[Len(s)] \in Whitespace
    THEN RStrip(SubSeq(s, 1, Len(s) - 1))
    ELSE s

\* line.strip()
Strip(s) == RStrip(LStrip(s))

\* The length of the longest prefix of s, from position p on, made of
\* characters of set cs (a greedy regex class repetition).
RECURSIVE RunLen(_, _, _)
RunLen(s, p, cs) ==
    IF p <= Len(s) /\ s[p] \in cs THEN 1 + RunLen(s, p + 1, cs) ELSE 0

\* int(digits)
RECURSIVE ParseInt(_)
ParseInt(ds) ==
    IF ds = <<>> THEN 0
    ELSE 10 * ParseInt(SubSeq(ds, 1, Len(ds) - 1)) + DigitVal(ds[Len(ds)])

\* re.match(r"l(\d+)", line, re.IGNORECASE): a match at the start of the
\* line, nothing required of what follows the digits.
match_l(line) ==
    /\ Len(line) >= 2
    /\ Lower(line[1]) = "l"
    /\ RunLen(line, 2, Digits) >= 1

\* int(match_l.group(1))
loop_count(line) == ParseInt(SubSeq(line, 2, 1 + RunLen(line, 2, Digits)))

\* re.match(r"t([\d.]+)", line, re.IGNORECASE)
match_t(line) ==
    /\ Len(line) >= 2
    /\ Lower(line[1]) = "t"
    /\ RunLen(line, 2, Digits \cup {"."}) >= 1

\* line.startswith("#")
IsComment(line) == line # <<>> /\ line[1] = "#"

(* ------------------------------------------------------------------ *)
(* tokenize_command                                                    *)
(* ------------------------------------------------------------------ *)

\* The position of the next double quote at or after p, 0 if none.
RECURSIVE NextQuote(_, _)
NextQuote(s, p) ==
    IF p > Len(s) THEN 0
    ELSE IF s[p] = "\"" THEN p
    ELSE NextQuote(s, p + 1)

\* A run that a comma would not end.
RECURSIVE RunEndIgnoringComma(_, _)
RunEndIgnoringComma(s, p) ==
    IF p + 1 <= Len(s) /\ s[p + 1] \notin Whitespace
    THEN RunEndIgnoringComma(s, p + 1)
    ELSE p

\* The last position of the run of characters, starting at p, that are
\* neither whitespace nor comma.
RECURSIVE RunEnd(_, _)
RunEnd(s, p) ==
    IF p + 1 <= Len(s) /\ s[p + 1] \notin Whitespace \cup {","}
    THEN RunEnd(s, p + 1)
    ELSE p

\* re.findall(r'(?:(?:"([^"]+)")|([^\s,]+))', line): at each position the
\* quoted alternative is tried first, then the run of characters that are
\* neither whitespace nor comma (a run may hold quote characters); a
\* position where neither matches is skipped.
RECURSIVE Scan(_, _)
Scan(s, p) ==
    IF p > Len(s) THEN <<>>
    ELSE LET q == IF s[p] = "\"" THEN NextQuote(s, p + 1) ELSE 0
         IN  IF q > p + 1
             THEN <<SubSeq(s, p + 1, q - 1)>> \o Scan(s, q + 1)
             ELSE IF s[p] \notin Whitespace \cup {","}
             THEN LET e == RunEnd(s, p)
                  IN  <<SubSeq(s, p, e)>> \o Scan(s, e + 1)
             ELSE Scan(s, p + 1)

tokenize_command(line) == Scan(line, 1)

(* ------------------------------------------------------------------ *)
(* find_end_of_loop                                                    *)
(* ------------------------------------------------------------------ *)

\* The scan of find_end_of_loop from line i on, at depth loop_depth.  Line
\* indices are 1-based here (Python's index + 1); -1 is Python's -1.
RECURSIVE ScanForEnd(_, _, _)
ScanForEnd(lines, i, loop_depth) ==
    IF i > Len(lines) THEN -1
    ELSE LET st == Strip(lines[i])
             line == [k \in 1..Len(st) |-> Lower(st[k])]
         IN  IF line # <<>> /\ line[1] = "l"
             THEN ScanForEnd(lines, i + 1, loop_depth + 1)
             ELSE IF line = <<"n">>
             THEN IF loop_depth = 0 THEN i
                  ELSE ScanForEnd(lines, i + 1, loop_depth - 1)
             ELSE ScanForEnd(lines, i + 1, loop_depth)

find_end_of_loop(lines, start_index) == ScanForEnd(lines, start_index + 1, 0)

(* ------------------------------------------------------------------ *)
(* The command families and the device mapping                         *)
(* ------------------------------------------------------------------ *)

megatron_commands ==
    { <<"e", "m", "a", "i", "l">>, <<"e", "x", "i", "t">>, <<"f", "a", "i", "l", "i", "f">>,
      <<"f", "a", "i", "l", "i", "f", "o", "f", "f">>, <<"l">>, <<"l", "o", "g">>,
      <<"l", "o", "g", "r", "a", "t", "e">>, <<"p", "l", "o", "t">>, <<"p", "r", "i", "n", "t">>,
      <<"r", "u", "n">>, <<"s", "e", "t">>, <<"s", "e", "t", "a", "o">>,
      <<"s", "e", "t", "d", "o">>, <<"s", "t", "o", "p">>, <<"t">>,
      <<"v", "a", "r">>, <<"w", "a", "i", "t", "a", "i">>, <<"w", "a", "i", "t", "d", "i">> }
motor_commands ==
    { <<"a", "c">>, <<"a", "f">>, <<"b", "a">>, <<"b", "g">>, <<"b", "i">>,
      <<"b", "l">>, <<"b", "m">>, <<"b", "t">>, <<"b", "z">>, <<"c", "c">>,
      <<"c", "e">>, <<"c", "n">>, <<"d", "c">>, <<"d", "p">>, <<"e", "r">>,
      <<"f", "a">>, <<"f", "e">>, <<"f", "l">>, <<"f", "v">>, <<"h", "m">>,
      <<"h", "v">>, <<"i", "b">>, <<"i", "h", "t">>, <<"i", "l">>, <<"k", "d">>,
      <<"k", "i">>, <<"k", "p">>, <<"l", "d">>, <<"m", "o">>, <<"m", "t">>,
      <<"o", "p">>, <<"p", "a">>, <<"p", "r">>, <<"p", "v">>, <<"s", "c">>,
      <<"s", "h">>, <<"s", "p">>, <<"s", "t">>, <<"t", "a">>, <<"t", "p">>,
      <<"x", "q">> }
CmdExit == <<"e", "x", "i", "t">>
CmdStop == <<"s", "t", "o", "p">>
CmdRun == <<"r", "u", "n">>
CmdFailif == <<"f", "a", "i", "l", "i", "f">>
CmdFailifoff == <<"f", "a", "i", "l", "i", "f", "o", "f", "f">>
CmdT == <<"t">>
CmdL == <<"l">>
CmdWaitai == <<"w", "a", "i", "t", "a", "i">>
CmdWaitdi == <<"w", "a", "i", "t", "d", "i">>
CmdLograte == <<"l", "o", "g", "r", "a", "t", "e">>
NameGalilRBV == <<"G", "a", "l", "i", "l", " ", "R", "B", "V">>
NameGalilVAL == <<"G", "a", "l", "i", "l", " ", "V", "A", "L">>
NameIonCurrent == <<"I", "O", "N", " ", "C", "u", "r", "r", "e", "n", "t">>

\* context.device_mapping restricted to the names the modelled scripts can
\* mention, and the attributes of context.devices (the required devices).
device_mapping(pv_name) ==
    CASE pv_name = NameGalilRBV -> "galil_rbv"
      [] pv_name = NameGalilVAL -> "galil_val"
      [] pv_name = NameIonCurrent -> "ION_Pump_PS.I"
      [] OTHER -> "unmapped"

DeviceAttrs == {"galil", "galil_val", "galil_rbv", "ION_Pump_PS"}

\* _process_supported_devices (lines 81-87) follows the dotted path of every
\* mapped name one attribute at a time when the interpreter is constructed,
\* and raises if a component is missing: in a session every mapped name has
\* a signal.
name_to_device(pv_name) ==
    IF device_mapping(pv_name) = "unmapped" THEN "none" ELSE device_mapping(pv_name)

\* The signals a fail condition can be armed on.
Signals == {"galil_rbv", "galil_val"}

(* ------------------------------------------------------------------ *)
(* The script files of a session                                       *)
(* ------------------------------------------------------------------ *)

LineBlank == <<>>
LineComment == <<"#", "c">>
LineTimer == <<"t", "1">>
LineLoop2 == <<"l", "2">>
LineLoop0 == <<"l", "0">>
LineClose == <<"n">>
LineLog == <<"l", "o", "g", " ", "a">>
LinePrint == <<"p", "r", "i", "n", "t", " ", "a">>
LineUnknown == <<"z", "z">>
LineStop == <<"s", "t", "o", "p">>
LineExit == <<"e", "x", "i", "t">>
LineFailif == <<"f", "a", "i", "l", "i", "f", " ", "\"", "G", "a", "l", "i", "l", " ", "R", "B", "V", "\"", " ", "0", " ", "r", "e", "c">>
LineFailifoff == <<"f", "a", "i", "l", "i", "f", "o", "f", "f", " ", "\"", "G", "a", "l", "i", "l", " ", "R", "B", "V", "\"">>
LineFailifVal == <<"f", "a", "i", "l", "i", "f", " ", "\"", "G", "a", "l", "i", "l", " ", "V", "A", "L", "\"", " ", "0", " ", "s", "u", "b">>
LineFailifIon == <<"f", "a", "i", "l", "i", "f", " ", "\"", "I", "O", "N", " ", "C", "u", "r", "r", "e", "n", "t", "\"", " ", "0", " ", "r", "e", "c">>
LineFailifUnmapped == <<"f", "a", "i", "l", "i", "f", " ", "\"", "X", "\"", " ", "0", " ", "r", "e", "c">>
LineWaitai == <<"w", "a", "i", "t", "a", "i", " ", "\"", "G", "a", "l", "i", "l", " ", "R", "B", "V", "\"", " ", ">", "=", " ", "1", "0", " ", "1", " ", "1">>
LineWaitdi == <<"w", "a", "i", "t", "d", "i", " ", "\"", "G", "a", "l", "i", "l", " ", "R", "B", "V", "\"", " ", "1", " ", "1">>
LineLograte == <<"l", "o", "g", "r", "a", "t", "e", " ", "1">>
LineLograteBad == <<"l", "o", "g", "r", "a", "t", "e", " ", "x">>
LineRunRec == <<"r", "u", "n", " ", "r", "e", "c">>
LineLoop1 == <<"l", "1">>
LineRunSub == <<"r", "u", "n", " ", "s", "u", "b">>
LinePrintM == <<"p", "r", "i", "n", "t", " ", "m">>
LinePrintR == <<"p", "r", "i", "n", "t", " ", "r">>
NameSub == <<"s", "u", "b">>
NameRec == <<"r", "e", "c">>

\* The lines a script under test is made of.
Vocabulary ==
    { LineBlank, LineComment, LineTimer, LineLoop2, LineLoop0, LineClose,
      LineLog, LinePrint, LineUnknown, LineStop, LineExit, LineFailif }

\* The longest script under test, and the number of signal updates of a run.
MaxBody == 2
MaxUpdates == 2

\* The ticks a sampling task is followed for.
MaxTicks == 2

Bodies == UNION { [1..n -> Vocabulary] : n \in 0..MaxBody }

\* The files of a session: the script under test b is the top-level script
\* (bare, after arming a fail condition, inside one loop, inside two loops),
\* the script started by `run` (from the top level, from a loop body), or
\* the recovery script.
Files(main, sub, rec) == [main |-> main, sub |-> sub, rec |-> rec]

Layouts(b) ==
    { Files(b, <<LinePrintM>>, <<LinePrintR>>),
      Files(<<LineFailif>> \o b \o <<LinePrintM>>, <<LinePrintM>>, <<LinePrintR>>),
      Files(<<LineFailif, LineLoop2>> \o b \o <<LineClose, LinePrintM>>,
            <<LinePrintM>>, <<LinePrintR>>),
      Files(<<LineFailif, LineLoop2, LineLoop2>> \o b
                \o <<LineClose, LineClose, LinePrintM>>,
            <<LinePrintM>>, <<LinePrintR>>),
      Files(<<LineFailif, LineRunSub, LinePrintM>>, b, <<LinePrintR>>),
      Files(<<LineFailif, LineLoop2, LineRunSub, LineClose, LinePrintM>>,
            b, <<LinePrintR>>),
      Files(<<LineFailif, LinePrintM, LinePrintM>>, <<LinePrintM>>, b) }

FileSystems == UNION { Layouts(b) : b \in Bodies }

\* os.path.join(context.script_dir, name) followed by open(): the file a
\* script name stands for.
FileOf(name) ==
    CASE name = NameSub -> "sub"
      [] name = NameRec -> "rec"
      [] OTHER -> "missing"

(* ------------------------------------------------------------------ *)
(* State                                                               *)
(* ------------------------------------------------------------------ *)

VARIABLES
    fs,                        \* the script files on disk
    stack,                     \* the suspended generators, outermost first
    status,                    \* "running", "done", "exited", "crashed"
    fail_condition_triggered,  \* context.fail_condition_triggered
    fail_script_path,          \* context.fail_script_path (unset at start)
    active_failif_conditions,  \* the module-level registry, by PV name
    subs,                      \* the callbacks subscribed to signals, by cid
    sig,                       \* the current value of each signal
    nextInv,                   \* the number of execute_script calls so far
    nupdates,                  \* the signal updates the run may still see
    \* history, read by the properties only
    last,                      \* the engine's most recent effect
    abandoned,                 \* invocations that consumed a fail trigger
    stopped,                   \* invocations in which `stop` was executed
    syntaxErr,                 \* invocations that reported a loop-syntax error
    skipped,                   \* a trigger was pending at the last step
                               \* boundary and the boundary made no check
    exitRan,                   \* `exit` has been executed
    execs,                     \* how often each line of each invocation ran
    probe,                     \* the input and result of a function applied
                               \* on its own
    \* the background logger
    events,                    \* the asyncio.Event objects created, TRUE when set
    logging_stop_event,        \* context.logging_stop_event, an index of events
    tasks,                     \* the logging_coro tasks, in creation order
    log_file,                  \* the rows of the log file, <<>> when absent
    \* the callback thread
    firing                     \* the on_pv_change call that last set the flag,
                               \* and whether it has stored its path yet

loggerVars == <<events, logging_stop_event, tasks, log_file>>
envVars == <<fs, probe, loggerVars, firing>>
engineVars ==
    <<stack, status, nextInv, last, abandoned, stopped, syntaxErr, skipped,
      exitRan, execs>>
monitorVars ==
    <<fail_condition_triggered, fail_script_path, active_failif_conditions, subs>>
vars ==
    <<fs, stack, status, fail_condition_triggered, fail_script_path,
      active_failif_conditions, subs, sig, nextInv, nupdates, last, abandoned,
      stopped, syntaxErr, skipped, exitRan, execs, probe, events,
      logging_stop_event, tasks, log_file, firing>>

\* The values a signal takes.
SigVals == {-1, 1}

(* ------------------------------------------------------------------ *)
(* Generator frames                                                    *)
(* ------------------------------------------------------------------ *)

\* One frame per suspended generator.  kind "script" is plan() of
\* execute_script, "loop" is handle_loop, "block" is execute_block.  inv is
\* the execute_script call the frame belongs to and how tells what started
\* that call ("main", "run", "divert").  lines[i] is the current line (1-based)
\* and base + i its index in the script file.  pc is where the generator is
\* suspended:
\*   "top"        at the while test
\*   "blank"      at the yield of a blank line
\*   "timer"      (block) at the yield of a timer line
\*   "step"       at the yield of a handler (or after a handler, a line of a
\*                block that yields nothing)
\*   "caught"     (script) at the yield of the except clause
\*   "call_loop"  in handle_loop,       "ret_loop" when it has returned
\*   "call_run"   in the `run` handler, "ret_run"  when it has returned
\*   "divert"     in the recovery script, "ret_divert" when it has returned
ScriptFrame(inv, how, lines) ==
    [kind |-> "script", inv |-> inv, how |-> how, lines |-> lines, base |-> 0,
     i |-> 1, pc |-> "top", n |-> 0, k |-> 0, loop_end |-> 0]

LoopFrame(f, loop_end) ==
    [kind |-> "loop", inv |-> f.inv, how |-> f.how,
     lines |-> SubSeq(f.lines, f.i + 1, loop_end - 1), base |-> f.base + f.i,
     i |-> 0, pc |-> "top", n |-> loop_count(Strip(f.lines[f.i])), k |-> 0,
     loop_end |-> 0]

BlockFrame(f) ==
    [kind |-> "block", inv |-> f.inv, how |-> f.how, lines |-> f.lines,
     base |-> f.base, i |-> 1, pc |-> "top", n |-> 0, k |-> 0, loop_end |-> 0]

Top == stack[Len(stack)]
SetTop(st, f) == [st EXCEPT ![Len(st)] = f]
Pop(st) == SubSeq(st, 1, Len(st) - 1)

\* The caller of a generator that has just returned: a frame that was
\* waiting in a call moves to the matching "ret" position.
ChildReturned(st) ==
    IF st = <<>> THEN st
    ELSE LET p == st[Len(st)]
         IN  CASE p.pc = "call_loop" -> SetTop(st, [p EXCEPT !.pc = "ret_loop"])
               [] p.pc = "call_run"  -> SetTop(st, [p EXCEPT !.pc = "ret_run"])
               [] p.pc = "divert"    -> SetTop(st, [p EXCEPT !.pc = "ret_divert"])
               [] OTHER -> st

\* The innermost plan() on the stack: the frame whose try block an exception
\* raised by a handler or by execute_block reaches first.
NearestScript(st) ==
    CHOOSE j \in 1..Len(st) :
        /\ st[j].kind = "script"
        /\ \A m \in (j + 1)..Len(st) : st[m].kind # "script"

NoEffect ==
    [kind |-> "init", inv |-> 0, how |-> "none", idx |-> 0, cls |-> "none",
     cmd |-> <<>>, report |-> "none", msg |-> "none", inBlock |-> FALSE,
     late |-> {}, hist |-> <<>>]

NoProbe == [fn |-> "none", lines |-> <<>>, start |-> 0, result |-> 0, done |-> FALSE]

\* The logger after create_shared_context (context.py line 35): one event,
\* not set, no task, no log file.
\* No callback has set the flag.
NoFiring == [cid |-> 0, script |-> <<>>, recorded |-> TRUE]

LoggerInit ==
    /\ events = <<FALSE>>
    /\ logging_stop_event = 1
    /\ tasks = <<>>
    /\ log_file = <<>>
    /\ firing = NoFiring

\* The state after create_shared_context and MegatronInterpreter.__init__,
\* when execute_script(main) has been called: no condition armed, the flag
\* clear, no recovery path attribute.
InitProbe(files, budget, p) ==
    /\ fs \in files
    /\ stack = <<ScriptFrame(1, "main", fs.main)>>
    /\ status = "running"
    /\ fail_condition_triggered = FALSE
    /\ fail_script_path = [set |-> FALSE, path |-> <<>>]
    /\ active_failif_conditions = {}
    /\ subs = <<>>
    /\ sig = [d \in Signals |-> 1]
    /\ nextInv = 1
    /\ nupdates = budget
    /\ last = NoEffect
    /\ abandoned = {}
    /\ stopped = {}
    /\ syntaxErr = {}
    /\ skipped = FALSE
    /\ exitRan = FALSE
    /\ execs = <<>>
    /\ probe = p
    /\ LoggerInit

InitWith(files, budget) == InitProbe(files, budget, NoProbe)

Init == InitWith(FileSystems, MaxUpdates)

(* ------------------------------------------------------------------ *)
(* Dispatch                                                            *)
(* ------------------------------------------------------------------ *)

\* float(s) succeeds: an optional sign, digits with at most one point and at
\* least one digit (exponents, inf and nan are not modelled).
IsFloat(s) ==
    LET body == IF s # <<>> /\ s[1] \in {"-", "+"} THEN Tail(s) ELSE s
    IN  /\ \A k \in 1..Len(body) : body[k] \in Digits \cup {"."}
        /\ \E k \in 1..Len(body) : body[k] \in Digits
        /\ Cardinality({k \in 1..Len(body) : body[k] = "."}) <= 1

\* float(s) for the integer literals of the modelled scripts.
FloatValue(s) ==
    IF s[1] = "-" THEN 0 - ParseInt(Tail(s))
    ELSE IF s[1] = "+" THEN ParseInt(Tail(s))
    ELSE ParseInt(s)

\* The arguments a handler indexes without a length test (IndexError below
\* that many).
MinArgs(command) ==
    CASE command \in {<<"l", "o", "g">>} -> 1
      [] command \in {<<"e", "m", "a", "i", "l">>, <<"v", "a", "r">>,
                      <<"s", "e", "t">>, <<"s", "e", "t", "a", "o">>,
                      <<"s", "e", "t", "d", "o">>,
                      <<"w", "a", "i", "t", "d", "i">>} -> 2
      [] command = <<"w", "a", "i", "t", "a", "i">> -> 3
      [] OTHER -> 0

\* int(s) succeeds: an optional sign and digits.
IsInt(s) ==
    LET body == IF s # <<>> /\ s[1] \in {"-", "+"} THEN Tail(s) ELSE s
    IN  body # <<>> /\ \A k \in 1..Len(body) : body[k] \in Digits

\* waitai and waitdi reach wait_for_condition (lines 360-370 and 378-386):
\* the arguments they index exist and convert, the source is a mapped name
\* and context.devices has an attribute of the mapped name.
WaitStarts(command, args) ==
    /\ Len(args) >= MinArgs(command)
    /\ IF command = CmdWaitai
       THEN /\ IsFloat(args[3])
            /\ Len(args) > 3 => IsFloat(args[4])
            /\ Len(args) > 4 => IsFloat(args[5])
       ELSE /\ IsInt(args[2])
            /\ Len(args) > 2 => IsFloat(args[3])
    /\ device_mapping(args[1]) \in DeviceAttrs

\* What the dispatch of a tokenized command line comes to, at the top level
\* of a script (lines 122-128) and in a loop body (lines 201-206):
\*   "yield"   the handler yields its step and returns
\*   "stop"    StopScript, "exit" SystemExit
\*   "run"     the `run` handler calls execute_script
\*   "failif", "failifoff"  the handlers of the fail-condition monitor
\*   "motor"   a device-motion command
\*   "lograte" the `lograte` handler with a numeric rate
\*   "wait"    waitai or waitdi calling wait_for_condition
\*   "cnf"     CommandNotFoundError (top level), "silent" nothing (loop body)
\*   "crash"   an exception no except clause of the engine catches
CommandOutcome(tokens, inBlock) ==
    IF tokens = <<>> THEN "crash"
    ELSE LET command == tokens[1]
             args == Tail(tokens)
         IN  IF command \in megatron_commands
             THEN CASE command = CmdExit -> "exit"
                    [] command = CmdStop -> "stop"
                    [] command = CmdRun ->
                         IF args = <<>> \/ FileOf(args[1]) = "missing"
                         THEN "crash" ELSE "run"
                    [] command = CmdFailif -> "failif"
                    [] command = CmdFailifoff -> "failifoff"
                    [] command = CmdL -> "crash"
                    [] command = CmdT ->
                         IF args = <<>> \/ ~IsFloat(args[1])
                         THEN "crash" ELSE "yield"
                    [] command = CmdLograte ->
                         IF args # <<>> /\ IsFloat(args[1]) THEN "lograte" ELSE "yield"
                    [] command \in {CmdWaitai, CmdWaitdi} ->
                         IF WaitStarts(command, args) THEN "wait" ELSE "crash"
                    [] OTHER ->
                         IF Len(args) < MinArgs(command) THEN "crash" ELSE "yield"
             ELSE IF command \in motor_commands THEN "motor"
             ELSE IF inBlock THEN "silent"
             ELSE "cnf"

(* ------------------------------------------------------------------ *)
(* The engine: the line the innermost generator is at                  *)
(* ------------------------------------------------------------------ *)

CanFetch ==
    /\ status = "running"
    /\ stack # <<>>
    /\ Top.kind \in {"script", "block"}
    /\ Top.pc = "top"
    /\ Top.i <= Len(Top.lines)

CurLine == Strip(Top.lines[Top.i])
InBlock == Top.kind = "block"

\* The branch of plan() (lines 96-107) or execute_block (lines 174-181) the
\* current line takes.  Only plan() tests for a comment.
Class ==
    IF ~InBlock /\ IsComment(CurLine) THEN "comment"
    ELSE IF CurLine = <<>> THEN "blank"
    ELSE IF match_t(CurLine) THEN "timer"
    ELSE IF match_l(CurLine) THEN "loop"
    ELSE "command"

Tokens == tokenize_command(CurLine)
Outcome == CommandOutcome(Tokens, InBlock)

\* What had already happened to invocation inv, or to the session, when one
\* of its lines is executed.
Late(inv) ==
    (IF inv \in abandoned THEN {"diverted"} ELSE {})
        \cup (IF inv \in stopped THEN {"stopped"} ELSE {})
        \cup (IF inv \in syntaxErr THEN {"syntax"} ELSE {})
        \cup (IF exitRan THEN {"exit"} ELSE {})

\* The engine's effect when it executes the current line: the class of the
\* line, the command name, what was printed as an error and the step yielded.
\* The effects so far with one more, kept only by a run that records them.
Traced(kind, cls, cmd, report, msg, check) ==
    IF probe.fn = "trace"
    THEN Append(last.hist, [kind |-> kind, inv |-> Top.inv, cls |-> cls, cmd |-> cmd,
                            report |-> report, msg |-> msg, check |-> check])
    ELSE <<>>

Effect(cls, cmd, report, msg) ==
    [kind |-> "exec", inv |-> Top.inv, how |-> Top.how, idx |-> Top.base + Top.i,
     cls |-> cls, cmd |-> cmd, report |-> report, msg |-> msg,
     inBlock |-> InBlock, late |-> Late(Top.inv),
     hist |-> Traced("exec", cls, cmd, report, msg, FALSE)]

Count(key) == IF key \in DOMAIN execs THEN execs[key] ELSE 0
Ran == execs' = (<<Top.inv, Top.base + Top.i>> :> (Count(<<Top.inv, Top.base + Top.i>>) + 1)) @@ execs

Crashed ==
    /\ status' = "crashed"
    /\ stack' = <<>>

(* ------------------------------------------------------------------ *)
(* The engine: executing one line                                      *)
(* ------------------------------------------------------------------ *)

\* A comment line of a script (lines 97-99: no yield) or a blank line
\* (lines 101-102 and 175-176: yield from bps.null()).
ExecNoOp ==
    /\ CanFetch
    /\ Class \in {"comment", "blank"}
    /\ stack' = SetTop(stack, IF Class = "comment"
                              THEN [Top EXCEPT !.i = @ + 1]
                              ELSE [Top EXCEPT !.pc = "blank"])
    /\ last' = Effect(Class, <<>>, "none", IF Class = "blank" THEN "null" ELSE "none")
    /\ Ran
    /\ UNCHANGED <<envVars, exitRan, status, nextInv, abandoned, stopped, syntaxErr, skipped,
                   monitorVars, sig, nupdates>>

\* A timer line: handle_timer -> process_megatron_command("t") -> t_command,
\* which yields a sleep (float() of the matched text may raise ValueError).
ExecTimer ==
    /\ CanFetch
    /\ Class = "timer"
    /\ LET timer_value == SubSeq(CurLine, 2, 1 + RunLen(CurLine, 2, Digits \cup {"."}))
       IN  IF IsFloat(timer_value)
           THEN /\ stack' = SetTop(stack, [Top EXCEPT !.pc = IF InBlock THEN "timer" ELSE "step"])
                /\ status' = status
           ELSE Crashed
    /\ last' = Effect("timer", CmdT, "none", "sleep")
    /\ Ran
    /\ UNCHANGED <<envVars, exitRan, nextInv, abandoned, stopped, syntaxErr, skipped,
                   monitorVars, sig, nupdates>>

\* A loop-open line whose close find_end_of_loop finds: handle_loop is
\* entered with the lines between the two (lines 114-119 and 190-197).
ExecLoop ==
    /\ CanFetch
    /\ Class = "loop"
    /\ LET loop_end == find_end_of_loop(Top.lines, Top.i)
       IN  /\ loop_end # -1
           /\ stack' = Append(SetTop(stack, [Top EXCEPT !.pc = "call_loop",
                                                        !.loop_end = loop_end]),
                              LoopFrame(Top, loop_end))
    /\ last' = Effect("loop", <<>>, "none", "none")
    /\ Ran
    /\ UNCHANGED <<envVars, exitRan, status, nextInv, abandoned, stopped, syntaxErr, skipped,
                   monitorVars, sig, nupdates>>

\* Where LoopSyntaxError, raised in plan() (line 117) or in execute_block
\* (line 194), is caught: the except clause of the innermost plan() (lines
\* 131-133), which prints it and yields one null step; the generators of
\* the loop the exception passed through are gone.
LoopSyntaxErrorCaught(st) ==
    LET j == NearestScript(st)
    IN  SetTop(SubSeq(st, 1, j), [st[j] EXCEPT !.pc = "caught"])

\* A loop-open line with no close.
ExecLoopError ==
    /\ CanFetch
    /\ Class = "loop"
    /\ find_end_of_loop(Top.lines, Top.i) = -1
    /\ stack' = LoopSyntaxErrorCaught(stack)
    /\ syntaxErr' = syntaxErr \cup {Top.inv}
    /\ last' = Effect("loop", <<>>, "LoopSyntaxError", "null")
    /\ Ran
    /\ UNCHANGED <<envVars, exitRan, status, nextInv, abandoned, stopped, skipped,
                   monitorVars, sig, nupdates>>

\* A command line whose name is in neither family: plan() raises
\* CommandNotFoundError, prints it and yields one null step (lines 127-133);
\* execute_block has no else branch (lines 203-208) and goes on.
UnknownReport(inBlock) == IF inBlock THEN "none" ELSE "CommandNotFound"
UnknownMsg(inBlock) == IF inBlock THEN "none" ELSE "null"

ExecUnknown ==
    /\ CanFetch
    /\ Class = "command"
    /\ Outcome \in {"cnf", "silent"}
    /\ stack' = SetTop(stack, [Top EXCEPT !.pc = IF InBlock THEN "step" ELSE "caught"])
    /\ last' = Effect("unknown", Tokens[1], UnknownReport(InBlock), UnknownMsg(InBlock))
    /\ Ran
    /\ UNCHANGED <<envVars, exitRan, status, nextInv, abandoned, stopped, syntaxErr, skipped,
                   monitorVars, sig, nupdates>>

\* failifoff (lines 212-227): the registry entry is popped, and unpacking
\* its three fields into two names raises ValueError.
FailifoffHits(args) ==
    /\ Len(args) = 1
    /\ \E e \in active_failif_conditions : e.pv = args[1]

\* The step a handler that only reports and yields gives.
HandlerMsg(command) ==
    CASE command = CmdT -> "sleep"
      [] command \in motor_commands -> "motor"
      [] command = <<"s", "e", "t">> -> "set"
      [] command \in {<<"w", "a", "i", "t", "a", "i">>, <<"w", "a", "i", "t", "d", "i">>} -> "wait"
      [] OTHER -> "null"

\* A command line whose handler yields its step and returns, or raises an
\* exception that no except clause of the engine names.
ExecCommand ==
    /\ CanFetch
    /\ Class = "command"
    /\ Outcome \in {"yield", "motor", "failifoff", "crash"}
    /\ LET args == Tail(Tokens)
           raises == Outcome = "crash" \/ (Outcome = "failifoff" /\ FailifoffHits(args))
       IN  /\ IF raises
              THEN Crashed
              ELSE /\ stack' = SetTop(stack, [Top EXCEPT !.pc = "step"])
                   /\ status' = status
           /\ active_failif_conditions' =
                 IF Outcome = "failifoff" /\ FailifoffHits(args)
                 THEN {e \in active_failif_conditions : e.pv # args[1]}
                 ELSE active_failif_conditions
           /\ last' = Effect("command",
                             IF Tokens = <<>> THEN <<>> ELSE Tokens[1],
                             IF raises THEN "exception" ELSE "none",
                             IF raises \/ Tokens = <<>> THEN "none" ELSE HandlerMsg(Tokens[1]))
    /\ Ran
    /\ UNCHANGED <<envVars, exitRan, nextInv, abandoned, stopped, syntaxErr, skipped,
                   fail_condition_triggered, fail_script_path, subs,
                   sig, nupdates>>

\* The generators left when StopScript is raised at the top of st: the
\* except clause of the innermost plan() breaks out of its while loop (lines
\* 129-130), so that execute_script call returns to whatever called it.
StopScript(st) == ChildReturned(SubSeq(st, 1, NearestScript(st) - 1))

\* A stop that would end only the innermost generator, as a `break` out of
\* execute_block would: the loop around it goes on with its next iteration.
stop_leaves_block(st) ==
    [stack |-> ChildReturned(Pop(st)),
     status |-> IF ChildReturned(Pop(st)) = <<>> THEN "done" ELSE "running"]

\* stop (lines 347-349) raises StopScript.
stop(st) ==
    [stack |-> StopScript(st),
     status |-> IF StopScript(st) = <<>> THEN "done" ELSE "running"]

ExecStop ==
    /\ CanFetch
    /\ Class = "command"
    /\ Outcome = "stop"
    /\ stack' = stop(stack).stack
    /\ status' = stop(stack).status
    /\ stopped' = stopped \cup {Top.inv}
    /\ last' = Effect("command", CmdStop, "none", "none")
    /\ Ran
    /\ UNCHANGED <<envVars, exitRan, nextInv, abandoned, syntaxErr, skipped,
                   monitorVars, sig, nupdates>>

\* An exit that would be caught where StopScript is: only the script
\* invocation that contains it ends.
exit_ends_script(st) ==
    [stack |-> StopScript(st),
     status |-> IF StopScript(st) = <<>> THEN "done" ELSE "running"]

\* exit_command (lines 75-77) raises SystemExit, which no except clause of
\* the engine names: every generator of the session is unwound.
exit_command(st) == [stack |-> <<>>, status |-> "exited"]

ExecExit ==
    /\ CanFetch
    /\ Class = "command"
    /\ Outcome = "exit"
    /\ stack' = exit_command(stack).stack
    /\ status' = exit_command(stack).status
    /\ exitRan' = TRUE
    /\ last' = Effect("command", CmdExit, "none", "none")
    /\ Ran
    /\ UNCHANGED <<envVars, nextInv, abandoned, stopped, syntaxErr, skipped,
                   monitorVars, sig, nupdates>>

\* run (lines 315-321): context.run_script_callback is execute_script, which
\* reads the named file and starts its plan() at the first line.
ExecRun ==
    /\ CanFetch
    /\ Class = "command"
    /\ Outcome = "run"
    /\ nextInv' = nextInv + 1
    /\ stack' = Append(SetTop(stack, [Top EXCEPT !.pc = "call_run"]),
                       ScriptFrame(nextInv + 1, "run", fs[FileOf(Tokens[2])]))
    /\ last' = Effect("command", CmdRun, "none", "none")
    /\ Ran
    /\ UNCHANGED <<envVars, exitRan, status, abandoned, stopped, syntaxErr, skipped,
                   monitorVars, sig, nupdates>>

(* ------------------------------------------------------------------ *)
(* The fail-condition monitor                                          *)
(* ------------------------------------------------------------------ *)

\* The tests of failif before it arms (lines 153-176): three arguments, a
\* numeric target, a mapped name, and a device attribute of that name.
FailifArms(args) ==
    /\ Len(args) = 3
    /\ IsFloat(args[2])
    /\ device_mapping(args[1]) # "unmapped"
    /\ device_mapping(args[1]) \in DeviceAttrs

\* The flag after failif has armed (line 179).
FlagAfterArming(flag) == FALSE

\* failif (lines 152-209): on arming it resets the triggered flag, reads the
\* signal as the callback's first old value, subscribes the callback and
\* stores the registry entry under the PV name; it always yields one step.
ExecFailif ==
    /\ CanFetch
    /\ Class = "command"
    /\ Outcome = "failif"
    /\ LET args == Tail(Tokens)
           dev == device_mapping(args[1])
       IN  IF FailifArms(args)
           THEN /\ fail_condition_triggered' = FlagAfterArming(fail_condition_triggered)
                /\ subs' = Append(subs, [pv |-> args[1], dev |-> dev,
                                         target |-> FloatValue(args[2]),
                                         script |-> args[3], last |-> sig[dev],
                                         live |-> TRUE])
                /\ active_failif_conditions' =
                      {e \in active_failif_conditions : e.pv # args[1]}
                        \cup {[pv |-> args[1], dev |-> dev, cid |-> Len(subs) + 1,
                               target |-> FloatValue(args[2])]}
           ELSE UNCHANGED <<fail_condition_triggered, subs, active_failif_conditions>>
    /\ stack' = SetTop(stack, [Top EXCEPT !.pc = "step"])
    /\ last' = Effect("command", CmdFailif,
                      IF FailifArms(Tail(Tokens)) THEN "none" ELSE "error", "null")
    /\ Ran
    /\ UNCHANGED <<envVars, exitRan, status, nextInv, abandoned, stopped, syntaxErr, skipped,
                   fail_script_path, sig, nupdates>>

\* on_pv_change's choice of the old value it compares with (lines 193-194):
\* the value the callback stored when it last ran to that point.
OldValue(s, previous) == s.last

\* The crossing test (lines 196-199).
Crossed(old_val, new_val, target_value) ==
    (old_val - target_value) * (new_val - target_value) <= 0

\* The callbacks of signal dev, called in subscription order from the k-th on
\* with the new value; previous is the signal's value before the update.  A
\* callback returns at once while the flag is set (lines 185-186); otherwise it
\* stores the new value and, on a crossing, sets the flag and the path (lines
\* 193-205).  fired collects the cids whose callback set the flag.
RECURSIVE on_pv_change(_, _, _, _, _)
on_pv_change(k, dev, new_val, previous, c) ==
    IF k > Len(c.subs) THEN c
    ELSE LET s == c.subs[k]
         IN  IF s.dev # dev \/ ~s.live \/ c.flag
             THEN on_pv_change(k + 1, dev, new_val, previous, c)
             ELSE LET fire == Crossed(OldValue(s, previous), new_val, s.target)
                  IN  on_pv_change(k + 1, dev, new_val, previous,
                        [subs |-> [c.subs EXCEPT ![k].last = new_val],
                         flag |-> fire,
                         path |-> IF fire THEN [set |-> TRUE, path |-> s.script]
                                  ELSE c.path,
                         fired |-> IF fire THEN c.fired \cup {k} ELSE c.fired])

\* A signal takes a new value and notifies its subscribers.
SignalUpdate(vals) ==
    /\ status = "running"
    /\ nupdates > 0
    /\ \E dev \in {"galil_rbv"}, new_val \in vals \ {sig["galil_rbv"]} :
          LET c == on_pv_change(1, dev, new_val, sig[dev],
                      [subs |-> subs, flag |-> fail_condition_triggered,
                       path |-> fail_script_path, fired |-> {}])
          IN  /\ sig' = [sig EXCEPT ![dev] = new_val]
              /\ subs' = c.subs
              /\ fail_condition_triggered' = c.flag
              /\ fail_script_path' = c.path
    /\ nupdates' = nupdates - 1
    /\ UNCHANGED <<envVars, engineVars, active_failif_conditions>>

\* The callback thread runs the callbacks of a new value up to the assignment
\* of the flag (line 204) while the script thread is free to run: the path is
\* assigned by a later step (line 205).
CallbackSetsFlag(vals) ==
    /\ status = "running"
    /\ nupdates > 0
    /\ firing.recorded
    /\ \E dev \in Signals, new_val \in vals :
          /\ new_val # sig[dev]
          /\ LET c == on_pv_change(1, dev, new_val, sig[dev],
                          [subs |-> subs, flag |-> fail_condition_triggered,
                           path |-> fail_script_path, fired |-> {}])
             IN  /\ sig' = [sig EXCEPT ![dev] = new_val]
                 /\ subs' = c.subs
                 /\ fail_condition_triggered' = c.flag
                 /\ firing' = IF c.fired = {} THEN firing
                              ELSE [cid |-> CHOOSE k \in c.fired : TRUE,
                                    script |-> c.path.path, recorded |-> FALSE]
    /\ nupdates' = nupdates - 1
    /\ UNCHANGED <<fs, probe, loggerVars, engineVars, fail_script_path,
                   active_failif_conditions>>

\* The callback that set the flag assigns the path (line 205).
CallbackSetsPath ==
    /\ ~firing.recorded
    /\ fail_script_path' = [set |-> TRUE, path |-> firing.script]
    /\ firing' = [firing EXCEPT !.recorded = TRUE]
    /\ UNCHANGED <<fs, probe, loggerVars, engineVars, fail_condition_triggered,
                   active_failif_conditions, subs, sig, nupdates>>

(* ------------------------------------------------------------------ *)
(* The wait commands                                                   *)
(* ------------------------------------------------------------------ *)

OpEq == <<"=", "=">>
OpNe == <<"!", "=">>
OpLt == <<"<">>
OpLe == <<"<", "=">>
OpGt == <<">">>
OpGe == <<">", "=">>

\* The comparison of the wait primitive: the tolerance widens the comparison
\* around the target (9 >= 10 - 1 holds).
compare(value, target, operator, tolerance) ==
    CASE operator = OpEq -> value - target <= tolerance /\ target - value <= tolerance
      [] operator = OpNe -> value - target > tolerance \/ target - value > tolerance
      [] operator = OpGe -> value >= target - tolerance
      [] operator = OpGt -> value > target - tolerance
      [] operator = OpLe -> value <= target + tolerance
      [] operator = OpLt -> value < target + tolerance
      [] OTHER -> FALSE

\* The target both handlers pass is value / 1000000 (lines 373 and 389).
TargetDivisor == 1000000

\* compare(signal_value, value / TargetDivisor, operator, tolerance) in exact
\* arithmetic: both sides of the comparison multiplied by TargetDivisor.
CompareDivided(signal_value, value, operator, tolerance) ==
    compare(signal_value * TargetDivisor, value, operator, tolerance * TargetDivisor)

\* The arguments waitai (lines 360-364) and waitdi (lines 378-380) take from
\* the tokens of their line.
WaitParams(tokens) ==
    LET args == Tail(tokens)
    IN  IF tokens[1] = CmdWaitai
        THEN [signal |-> device_mapping(args[1]), operator |-> args[2],
              value |-> FloatValue(args[3]),
              tolerance |-> IF Len(args) > 3 THEN FloatValue(args[4]) ELSE 0,
              timeout |-> Len(args) > 4]
        ELSE [signal |-> device_mapping(args[1]), operator |-> OpEq,
              value |-> FloatValue(args[2]), tolerance |-> 0,
              timeout |-> Len(args) > 2]

\* The condition wait_for_condition is called to wait for.
WaitCondition(tokens) ==
    LET w == WaitParams(tokens)
    IN  CompareDivided(sig[w.signal], w.value, w.operator, w.tolerance)

\* waitai or waitdi as far as its call of wait_for_condition, which blocks
\* the script.
ExecWait ==
    /\ CanFetch
    /\ Class = "command"
    /\ Outcome = "wait"
    /\ stack' = SetTop(stack, [Top EXCEPT !.pc = "waiting"])
    /\ last' = Effect("command", Tokens[1], "none", "waiting")
    /\ Ran
    /\ UNCHANGED <<envVars, exitRan, status, nextInv, abandoned, stopped, syntaxErr,
                   skipped, monitorVars, sig, nupdates>>

Waiting ==
    /\ status = "running"
    /\ stack # <<>>
    /\ Top.kind \in {"script", "block"}
    /\ Top.pc = "waiting"

\* wait_for_condition samples the signal and finds the condition to hold:
\* the handler returns and the line has been one step.
WaitDone ==
    /\ Waiting
    /\ WaitCondition(Tokens)
    /\ stack' = SetTop(stack, [Top EXCEPT !.pc = "step"])
    /\ last' = [last EXCEPT !.msg = "wait"]
    /\ UNCHANGED <<envVars, exitRan, status, nextInv, abandoned, stopped, syntaxErr,
                   skipped, execs, monitorVars, sig, nupdates>>

\* An exception handled as CommandNotFoundError is: reported by the innermost
\* plan(), one null step, and on to the next line.
CaughtAsNoOp(st) == [stack |-> LoopSyntaxErrorCaught(st), status |-> "running"]

\* An exception that none of the except clauses of plan() names (lines
\* 129-133) leaves every generator of the session.
UncaughtException(st) == [stack |-> <<>>, status |-> "crashed"]

\* The timeout of the wait elapses while the condition does not hold:
\* wait_for_condition raises TimeoutError.
WaitTimeout ==
    /\ Waiting
    /\ WaitParams(Tokens).timeout
    /\ ~WaitCondition(Tokens)
    /\ stack' = UncaughtException(stack).stack
    /\ status' = UncaughtException(stack).status
    /\ last' = [last EXCEPT !.report = "TimeoutError", !.msg = "none"]
    /\ UNCHANGED <<envVars, exitRan, nextInv, abandoned, stopped, syntaxErr,
                   skipped, execs, monitorVars, sig, nupdates>>

(* ------------------------------------------------------------------ *)
(* The background logger                                               *)
(* ------------------------------------------------------------------ *)

\* lograte with a numeric rate, up to its first yield (lines 81-118): the
\* event of the context is set and replaced by a new one, and the handler
\* is suspended at bps.sleep(0).  (A rate that float() rejects, or none, is
\* reported by the except clauses and yields the null step of line 126.)
ExecLograte ==
    /\ CanFetch
    /\ Class = "command"
    /\ Outcome = "lograte"
    /\ events' = Append([events EXCEPT ![logging_stop_event] = TRUE], FALSE)
    /\ logging_stop_event' = Len(events) + 1
    /\ stack' = SetTop(stack, [Top EXCEPT !.pc = "lograte_sleep"])
    /\ last' = Effect("command", CmdLograte, "none", "sleep")
    /\ Ran
    /\ UNCHANGED <<fs, probe, firing, tasks, log_file, exitRan, status, nextInv, abandoned,
                   stopped, syntaxErr, skipped, monitorVars, sig, nupdates>>

\* A task as asyncio.ensure_future(logging_coro()) creates it: not started,
\* no event read yet.
NewTask == [pc |-> "created", stop_event |-> 0, ticks |-> 0]

\* lograte resumed after bps.sleep(0) (lines 119-126): the task is created
\* and the handler yields its null step.
LograteSpawn ==
    /\ status = "running"
    /\ stack # <<>>
    /\ Top.pc = "lograte_sleep"
    /\ tasks' = Append(tasks, NewTask)
    /\ stack' = SetTop(stack, [Top EXCEPT !.pc = "step"])
    /\ last' = [last EXCEPT !.msg = "null"]
    /\ UNCHANGED <<fs, probe, firing, events, logging_stop_event, log_file, exitRan, status,
                   nextInv, abandoned, stopped, syntaxErr, skipped, execs,
                   monitorVars, sig, nupdates>>

\* The event loop runs task t for the first time: logging_coro reaches
\* `await asyncio.sleep(0)` (line 92).
TaskStart(t) ==
    /\ tasks[t].pc = "created"
    /\ tasks' = [tasks EXCEPT ![t].pc = "sleep0"]
    /\ UNCHANGED <<fs, probe, firing, events, logging_stop_event, log_file, engineVars,
                   monitorVars, sig, nupdates>>

\* The event the task tests when it is resumed: after sleep(0) the one it
\* reads from the context at that moment (line 93), later the one it read.
stop_event(t) ==
    IF tasks[t].pc \in {"created", "sleep0"}
    THEN logging_stop_event ELSE tasks[t].stop_event

\* A tick that would write the header whatever it finds on disk.
always_new_file(file) == TRUE

\* os.path.isfile(log_file_path) fails (lines 99-102).
is_new_file(file) == file = <<>>

\* One sampling tick (lines 94-115): the header if the file is absent, one
\* data row, then `await asyncio.sleep(log_rate)`.
TaskTick(t) ==
    /\ tasks[t].pc \in {"sleep0", "sleeping"}
    /\ ~events[stop_event(t)]
    /\ tasks[t].ticks < MaxTicks
    /\ log_file' = log_file
                     \o (IF is_new_file(log_file)
                         THEN <<[kind |-> "header", task |-> t]>> ELSE <<>>)
                     \o <<[kind |-> "row", task |-> t]>>
    /\ tasks' = [tasks EXCEPT ![t] = [pc |-> "sleeping", stop_event |-> stop_event(t),
                                      ticks |-> @.ticks + 1]]
    /\ UNCHANGED <<fs, probe, firing, events, logging_stop_event, engineVars, monitorVars,
                   sig, nupdates>>

\* The task finds its event set and returns (line 94).
TaskExit(t) ==
    /\ tasks[t].pc \in {"sleep0", "sleeping"}
    /\ events[stop_event(t)]
    /\ tasks' = [tasks EXCEPT ![t] = [@ EXCEPT !.pc = "exited",
                                               !.stop_event = stop_event(t)]]
    /\ UNCHANGED <<fs, probe, firing, events, logging_stop_event, log_file, engineVars,
                   monitorVars, sig, nupdates>>

(* ------------------------------------------------------------------ *)
(* The engine: step boundaries, diversion, returns                     *)
(* ------------------------------------------------------------------ *)

AtBoundary ==
    /\ status = "running"
    /\ stack # <<>>
    /\ Top.kind \in {"script", "block"}
    /\ Top.pc \in {"blank", "timer", "step", "caught", "ret_loop", "ret_run"}

\* Whether the generator tests the flag when it resumes from pc: plan() does
\* after the try statement (lines 134-136) but not after a blank line (lines
\* 102-104); execute_block does after a command line (lines 208-210) but not
\* after a blank line, a timer or a nested loop (lines 176-178, 185-187,
\* 197-199).
ChecksFlag(kind, pc) ==
    \/ kind = "script" /\ pc \in {"step", "caught", "ret_loop", "ret_run"}
    \/ kind = "block" /\ pc \in {"step", "ret_run"}

\* The line the generator goes on with: after a loop, the line after the
\* close (i = loop_end; i += 1, and i = loop_end + 1), else the next line.
NextIndex(f) == IF f.pc = "ret_loop" THEN f.loop_end + 1 ELSE f.i + 1

Boundary(cls) ==
    [kind |-> cls, inv |-> Top.inv, how |-> Top.how, idx |-> Top.base + Top.i,
     cls |-> Top.pc, cmd |-> <<>>, report |-> "none", msg |-> "none",
     inBlock |-> InBlock, late |-> {},
     hist |-> Traced(cls, Top.pc, <<>>, "none", "none", ChecksFlag(Top.kind, Top.pc))]

\* The generator resumes after its step and goes to the next line.
Advance ==
    /\ AtBoundary
    /\ ChecksFlag(Top.kind, Top.pc) => ~fail_condition_triggered
    /\ stack' = SetTop(stack, [Top EXCEPT !.i = NextIndex(Top), !.pc = "top"])
    /\ skipped' = fail_condition_triggered
    /\ last' = Boundary("boundary")
    /\ UNCHANGED <<envVars, exitRan, status, nextInv, abandoned, stopped, syntaxErr, execs,
                   monitorVars, sig, nupdates>>

\* The generators left when the generator at the top of st, having run the
\* recovery script (the frame rec), executes its return statement (lines
\* 139-140 and 213-214).
DivertFrom(st, rec) ==
    Append(SetTop(st, [st[Len(st)] EXCEPT !.i = NextIndex(st[Len(st)]),
                                          !.pc = "divert"]), rec)

\* The generator resumes after its step, finds the flag set, clears it and
\* executes the recovery script (lines 136-139 and 210-213).
Divert ==
    /\ AtBoundary
    /\ ChecksFlag(Top.kind, Top.pc)
    /\ fail_condition_triggered
    /\ fail_condition_triggered' = FALSE
    /\ IF fail_script_path.set /\ FileOf(fail_script_path.path) # "missing"
       THEN /\ stack' = DivertFrom(stack, ScriptFrame(nextInv + 1, "divert",
                                           fs[FileOf(fail_script_path.path)]))
            /\ status' = status
       ELSE Crashed
    /\ nextInv' = nextInv + 1
    /\ abandoned' = abandoned \cup {Top.inv}
    /\ skipped' = FALSE
    /\ last' = Boundary("divert")
    /\ UNCHANGED <<envVars, exitRan, stopped, syntaxErr, execs, fail_script_path,
                   active_failif_conditions, subs, sig, nupdates>>

\* A generator ends: plan() or execute_block at the end of its lines or at
\* the return after a recovery script, handle_loop after its last iteration.
Return ==
    /\ status = "running"
    /\ stack # <<>>
    /\ \/ Top.kind \in {"script", "block"} /\ Top.pc = "top" /\ Top.i > Len(Top.lines)
       \/ Top.kind \in {"script", "block"} /\ Top.pc = "ret_divert"
       \/ Top.kind = "loop" /\ Top.k >= Top.n
    /\ stack' = ChildReturned(Pop(stack))
    /\ status' = IF stack' = <<>> THEN "done" ELSE status
    /\ UNCHANGED <<envVars, exitRan, nextInv, last, abandoned, stopped, syntaxErr, skipped,
                   execs, monitorVars, sig, nupdates>>

\* handle_loop starts its next iteration (lines 154-156).
LoopIter ==
    /\ status = "running"
    /\ stack # <<>>
    /\ Top.kind = "loop"
    /\ Top.k < Top.n
    /\ stack' = Append(SetTop(stack, [Top EXCEPT !.k = @ + 1]), BlockFrame(Top))
    /\ UNCHANGED <<envVars, exitRan, status, nextInv, last, abandoned, stopped, syntaxErr,
                   skipped, execs, monitorVars, sig, nupdates>>

Next ==
    \/ ExecNoOp
    \/ ExecTimer
    \/ ExecLoop
    \/ ExecLoopError
    \/ ExecUnknown
    \/ ExecCommand
    \/ ExecStop
    \/ ExecExit
    \/ ExecRun
    \/ ExecFailif
    \/ Advance
    \/ Divert
    \/ Return
    \/ LoopIter
    \/ SignalUpdate(SigVals)

Spec == Init /\ [][Next]_vars

(* ------------------------------------------------------------------ *)
(* The fail-condition monitor on its own: a condition armed by the     *)
(* first line, more signal values, more updates                        *)
(* ------------------------------------------------------------------ *)

MonitorVocabulary ==
    {LineBlank, LinePrint, LineFailif, LineFailifoff, LineFailifIon, LineFailifUnmapped}
MonitorVals == {-1, 1, 2}
MonitorUpdates == 3

MonitorFiles ==
    { Files(<<LineFailif>> \o b \o <<LinePrintM>>, <<LinePrintM>>, <<LinePrintR>>) :
        b \in UNION { [1..n -> MonitorVocabulary] : n \in 0..MaxBody } }

InitMonitor == InitWith(MonitorFiles, MonitorUpdates)

NextMonitor ==
    \/ ExecNoOp
    \/ ExecCommand
    \/ ExecFailif
    \/ Advance
    \/ Divert
    \/ Return
    \/ SignalUpdate(MonitorVals)

SpecMonitor == InitMonitor /\ [][NextMonitor]_vars

(* ------------------------------------------------------------------ *)
(* The callback thread beside the script thread: two conditions with   *)
(* different recovery scripts, the callback's two assignments apart    *)
(* ------------------------------------------------------------------ *)

RaceVocabulary == {LineBlank, LinePrint}
RaceUpdates == 2

RaceFiles ==
    { Files(<<LineFailif, LineFailifVal>> \o b \o <<LinePrintM>>,
            <<LinePrintM>>, <<LinePrintR>>) :
        b \in UNION { [1..n -> RaceVocabulary] : n \in 0..MaxBody } }

InitRace == InitWith(RaceFiles, RaceUpdates)

NextRace ==
    \/ ExecNoOp
    \/ ExecCommand
    \/ ExecFailif
    \/ Advance
    \/ Divert
    \/ Return
    \/ CallbackSetsFlag(SigVals)
    \/ CallbackSetsPath

SpecRace == InitRace /\ [][NextRace]_vars

(* ------------------------------------------------------------------ *)
(* The same lines at top level and as a loop body: the main script     *)
(* runs the lines B as one script, then `l1`, B, `n` as another, and   *)
(* the run records its effects                                         *)
(* ------------------------------------------------------------------ *)

EquivVocabulary == {LineBlank, LineComment, LineTimer, LinePrint, LineUnknown}
MaxEquivLines == 2

EquivBodies == UNION { [1..n -> EquivVocabulary] : n \in 1..MaxEquivLines }

EquivFiles ==
    { Files(<<LineRunSub, LineRunRec>>, b, <<LineLoop1>> \o b \o <<LineClose>>) :
        b \in EquivBodies }

InitEquiv == InitProbe(EquivFiles, 0, [NoProbe EXCEPT !.fn = "trace"])

NextEquiv ==
    \/ ExecNoOp
    \/ ExecTimer
    \/ ExecLoop
    \/ ExecUnknown
    \/ ExecCommand
    \/ ExecRun
    \/ Advance
    \/ Return
    \/ LoopIter

SpecEquiv == InitEquiv /\ [][NextEquiv]_vars

(* ------------------------------------------------------------------ *)
(* The background logger: scripts of lograte commands, and the event   *)
(* loop running the tasks between the engine's steps                   *)
(* ------------------------------------------------------------------ *)

LoggerVocabulary == {LineLograte, LineLograteBad, LinePrint}
MaxLogLines == 3

LoggerFiles ==
    { Files(b, <<LinePrintM>>, <<LinePrintR>>) :
        b \in UNION { [1..n -> LoggerVocabulary] : n \in 1..MaxLogLines } }

InitLogger == InitWith(LoggerFiles, 0)

NextLogger ==
    \/ ExecCommand
    \/ ExecLograte
    \/ LograteSpawn
    \/ Advance
    \/ Return
    \/ \E t \in 1..Len(tasks) : TaskStart(t)
    \/ \E t \in 1..Len(tasks) : TaskTick(t)
    \/ \E t \in 1..Len(tasks) : TaskExit(t)

SpecLogger == InitLogger /\ [][NextLogger]_vars

(* ------------------------------------------------------------------ *)
(* The wait commands: scripts of waits, at the top level and in a      *)
(* script started by run, while the signal changes                     *)
(* ------------------------------------------------------------------ *)

WaitVocabulary == {LineWaitai, LineWaitdi, LinePrint}
WaitVals == {-1, 1, 8, 9}
WaitUpdates == 2
MaxWaitLines == 2

WaitBodies == UNION { [1..n -> WaitVocabulary] : n \in 1..MaxWaitLines }

WaitFiles ==
    { Files(b \o <<LinePrintM>>, <<LinePrintM>>, <<LinePrintR>>) : b \in WaitBodies }
        \cup { Files(<<LineRunSub, LinePrintM>>, b, <<LinePrintR>>) : b \in WaitBodies }

InitWait == InitWith(WaitFiles, WaitUpdates)

NextWait ==
    \/ ExecCommand
    \/ ExecRun
    \/ ExecWait
    \/ WaitDone
    \/ WaitTimeout
    \/ Advance
    \/ Return
    \/ SignalUpdate(WaitVals)

SpecWait == InitWait /\ [][NextWait]_vars

(* ------------------------------------------------------------------ *)
(* find_end_of_loop on its own                                         *)
(* ------------------------------------------------------------------ *)

ResolverVocabulary == {LineLoop2, LineClose, LineLog, LinePrint}
MaxLines == 4

ResolverInputs ==
    { [fn |-> "find_end_of_loop", lines |-> ls, start |-> i, result |-> 0,
       done |-> FALSE] :
        <<ls, i>> \in { <<l, j>> \in (UNION { [1..n -> ResolverVocabulary] : n \in 1..MaxLines })
                                        \X (1..MaxLines) :
                          j <= Len(l) /\ match_l(Strip(l[j])) } }

InitResolver ==
    /\ probe \in ResolverInputs
    /\ fs = Files(<<>>, <<>>, <<>>)
    /\ stack = <<>>
    /\ status = "idle"
    /\ fail_condition_triggered = FALSE
    /\ fail_script_path = [set |-> FALSE, path |-> <<>>]
    /\ active_failif_conditions = {}
    /\ subs = <<>>
    /\ sig = [d \in Signals |-> 1]
    /\ nextInv = 0
    /\ nupdates = 0
    /\ last = NoEffect
    /\ abandoned = {}
    /\ stopped = {}
    /\ syntaxErr = {}
    /\ skipped = FALSE
    /\ exitRan = FALSE
    /\ execs = <<>>
    /\ LoggerInit

\* The engine's call of the resolver (lines 115 and 191).
ApplyResolver ==
    /\ probe.fn = "find_end_of_loop"
    /\ ~probe.done
    /\ probe' = [probe EXCEPT !.result = find_end_of_loop(probe.lines, probe.start),
                              !.done = TRUE]
    /\ UNCHANGED <<fs, loggerVars, firing, engineVars, monitorVars, sig, nupdates>>

SpecResolver == InitResolver /\ [][ApplyResolver]_vars

(* ------------------------------------------------------------------ *)
(* tokenize_command and process_megatron_command on their own          *)
(* ------------------------------------------------------------------ *)

\* No session: nothing is executing and nothing is armed.
IdleEngine ==
    /\ fs = Files(<<>>, <<>>, <<>>)
    /\ stack = <<>>
    /\ status = "idle"
    /\ fail_condition_triggered = FALSE
    /\ fail_script_path = [set |-> FALSE, path |-> <<>>]
    /\ active_failif_conditions = {}
    /\ subs = <<>>
    /\ sig = [d \in Signals |-> 1]
    /\ nextInv = 0
    /\ nupdates = 0
    /\ last = NoEffect
    /\ abandoned = {}
    /\ stopped = {}
    /\ syntaxErr = {}
    /\ skipped = FALSE
    /\ exitRan = FALSE
    /\ execs = <<>>
    /\ LoggerInit

TokenizerAlphabet == {"a", "\"", " ", ","}
MaxChars == 5
ExampleLine == <<"s", "e", "t", " ", "\"", "M", "y", " ", "D", "e", "v", "i", "c", "e", "\"", " ", "5">>

TokenizerInputs ==
    { [fn |-> "tokenize_command", line |-> l, result |-> <<>>, done |-> FALSE] :
        l \in (UNION { [1..n -> TokenizerAlphabet] : n \in 0..MaxChars })
                 \cup {ExampleLine} }

InitTokenizer == probe \in TokenizerInputs /\ IdleEngine

\* The engine's call of the tokenizer (lines 121 and 201).
ApplyTokenizer ==
    /\ probe.fn = "tokenize_command"
    /\ ~probe.done
    /\ probe' = [probe EXCEPT !.result = tokenize_command(probe.line), !.done = TRUE]
    /\ UNCHANGED <<fs, loggerVars, firing, engineVars, monitorVars, sig, nupdates>>

SpecTokenizer == InitTokenizer /\ [][ApplyTokenizer]_vars

\* The parameters each handler of command_dispatcher declares.
params(command) ==
    CASE command = CmdExit -> <<>>
      [] command = CmdL -> <<"block", "context">>
      [] command \in {CmdLograte, CmdFailif, CmdRun, CmdWaitai, CmdWaitdi,
                      <<"p", "l", "o", "t">>, <<"s", "e", "t">>} -> <<"args", "context">>
      [] OTHER -> <<"args">>

\* The keys of kwargs (line 56).
kwargs == {"args", "context", "current_script_path"}

\* dynamic_args (line 57): the values of the declared parameters that are
\* keys of kwargs, each value named here by its key.
dynamic_args(command) == SelectSeq(params(command), LAMBDA param : param \in kwargs)

\* process_megatron_command (lines 28-61): the handler is called with
\* dynamic_args as positional arguments, so the k-th declared parameter
\* receives the k-th of them; a call with fewer arguments than parameters
\* raises TypeError; a name not in the table raises CommandNotFoundError.
process_megatron_command(command) ==
    IF command \notin megatron_commands
    THEN [outcome |-> "CommandNotFound", bound |-> <<>>]
    ELSE IF Len(dynamic_args(command)) # Len(params(command))
    THEN [outcome |-> "TypeError", bound |-> <<>>]
    ELSE [outcome |-> "invoked",
          bound |-> [k \in 1..Len(params(command)) |->
                        <<params(command)[k], dynamic_args(command)[k]>>]]

DispatchArgs == {<<>>, <<<<"a">>>>, <<<<"a">>, <<"1">>>>}

DispatchInputs ==
    { [fn |-> "process_megatron_command", command |-> c, args |-> a, path |-> pth,
       result |-> [outcome |-> "none", bound |-> <<>>], done |-> FALSE] :
        <<c, a, pth>> \in (megatron_commands \cup {LineUnknown, <<"b", "g">>})
                             \X DispatchArgs \X {"none", "main"} }

InitDispatch == probe \in DispatchInputs /\ IdleEngine

\* The engine's call of the dispatcher (lines 123 and 204).
ApplyDispatch ==
    /\ probe.fn = "process_megatron_command"
    /\ ~probe.done
    /\ probe' = [probe EXCEPT !.result = process_megatron_command(probe.command),
                              !.done = TRUE]
    /\ UNCHANGED <<fs, loggerVars, firing, engineVars, monitorVars, sig, nupdates>>

SpecDispatch == InitDispatch /\ [][ApplyDispatch]_vars

(* ------------------------------------------------------------------ *)
(* Properties                                                          *)
(* ------------------------------------------------------------------ *)

\* The loop structure the script format defines: a line matching l<digits>
\* opens a loop, a line `n` closes the innermost open one.
IsOpen(line) == match_l(Strip(line))
IsClose(line) ==
    LET st == Strip(line) IN Len(st) = 1 /\ Lower(st[1]) = "n"

RECURSIVE MatchFrom(_, _, _)
MatchFrom(lines, i, depth) ==
    IF i > Len(lines) THEN -1
    ELSE IF IsOpen(lines[i]) THEN MatchFrom(lines, i + 1, depth + 1)
    ELSE IF IsClose(lines[i])
    THEN IF depth = 0 THEN i ELSE MatchFrom(lines, i + 1, depth - 1)
    ELSE MatchFrom(lines, i + 1, depth)

\* The close of the loop opened at line start, -1 if it has none.
MatchingClose(lines, start) == MatchFrom(lines, start + 1, 0)

\* The loops line idx is in the body of.
Enclosing(lines, idx) ==
    { i \in 1..(idx - 1) : IsOpen(lines[i]) /\ MatchingClose(lines, i) > idx }

RECURSIVE Product(_, _)
Product(lines, opens) ==
    IF opens = {} THEN 1
    ELSE LET i == CHOOSE x \in opens : TRUE
         IN  loop_count(Strip(lines[i])) * Product(lines, opens \ {i})

\* How often a run of the script that nothing interrupts executes line idx: a
\* line that closes a loop is not executed, any other line once per
\* iteration of the loops around it.
Expected(lines, idx) ==
    IF \E i \in 1..(idx - 1) : IsOpen(lines[i]) /\ MatchingClose(lines, i) = idx
    THEN 0
    ELSE Product(lines, Enclosing(lines, idx))

WellFormed(lines) ==
    \A i \in 1..Len(lines) : IsOpen(lines[i]) => MatchingClose(lines, i) # -1

\* The engine's most recent effect is a line that invoked a handler.
HandlerRan == last.kind = "exec" /\ last.cls \in {"command", "timer"}

\* C1: once an invocation has consumed a fail trigger, none of its lines is
\* executed any more (the rest of the iteration, further iterations, the
\* lines after the loop), and every script, the recovery script included,
\* runs from its first line.
C1_DiversionAbandonsScript ==
    /\ HandlerRan => "diverted" \notin last.late
    /\ last.kind = "exec" => <<last.inv, 1>> \in DOMAIN execs

\* C2: no line is executed after a step boundary at which a trigger was
\* pending: the flag is tested at every boundary and the recovery script
\* starts there.
C2_FlagCheckedAfterEveryStep ==
    ~(HandlerRan /\ skipped)

\* C3: a set flag is cleared by the engine's diversion check only.
C3_OnlyDiversionClearsFlag ==
    [][(fail_condition_triggered /\ ~fail_condition_triggered')
          => last'.kind = "divert"]_vars

\* C4: when the top-level script, with every loop closed, ends without a
\* diversion or a stop, each of its lines has been executed once per
\* iteration of the loops around it (N times in a loop of N, N*M times in
\* a loop of M inside it, once after the loop).
C4_LoopBodyRunsNTimes ==
    (status = "done" /\ abandoned = {} /\ stopped = {} /\ WellFormed(fs.main))
        => \A idx \in 1..Len(fs.main) : Count(<<1, idx>>) = Expected(fs.main, idx)

\* C5: the resolver returns the close that matches the loop-open line, and
\* -1 exactly when there is none.
C5_ResolverFindsMatchingClose ==
    probe.done => probe.result = MatchingClose(probe.lines, probe.start)

\* C6: after a loop-syntax error no further line of that script is executed.
C6_SyntaxErrorAbandonsScript ==
    HandlerRan => "syntax" \notin last.late

\* C7: a line with an unknown command name is reported and is one null step,
\* at the top level and in a loop body.
C7_UnknownCommandReportedNoOp ==
    (last.kind = "exec" /\ last.cls = "unknown" /\ last.cmd[1] # "#")
        => (last.report = "CommandNotFound" /\ last.msg = "null")

\* The most recent effect is the execution of a line with command name c.
Executed(c) == last.kind = "exec" /\ last.cls = "command" /\ last.cmd = c

\* C8: stop ends the script invocation that contains it and nothing else:
\* none of that invocation's lines is executed afterwards and none of its
\* generators (script, loops, loop bodies) is left; when the invocation was
\* started by run, the session goes on and the caller is at the step
\* boundary of its run line, from which it goes to the line after it.
C8_StopEndsItsScript ==
    /\ last.kind = "exec" => "stopped" \notin last.late
    /\ \A k \in 1..Len(stack) : stack[k].inv \notin stopped
    /\ (Executed(CmdStop) /\ last.how = "run")
          => /\ status = "running"
             /\ stack # <<>>
             /\ Top.inv # last.inv
             /\ Top.pc = "ret_run"
             /\ NextIndex(Top) = Top.i + 1
             /\ tokenize_command(Strip(Top.lines[Top.i]))[1] = CmdRun

\* A line of a loop body of the calling script executed after a stop in the
\* script that this loop body ran.
C8_Witness ==
    /\ last.kind = "exec"
    /\ last.inv = 1
    /\ last.inBlock
    /\ stopped # {}
    /\ 1 \notin stopped

\* C9: once exit has been executed the session is over: exit is the last
\* line executed, no generator is left, and neither a line nor a diversion
\* follows, whatever called the script and whatever trigger is pending.
C9_ExitEndsSession ==
    exitRan => /\ Executed(CmdExit)
               /\ "exit" \notin last.late
               /\ status = "exited"
               /\ stack = <<>>
               /\ ~ENABLED (ExecNoOp \/ ExecTimer \/ ExecLoop \/ ExecLoopError
                             \/ ExecUnknown \/ ExecCommand \/ ExecStop \/ ExecExit
                             \/ ExecRun \/ ExecFailif \/ Advance \/ Divert
                             \/ Return \/ LoopIter)

\* An exit in a script started by run, with a trigger pending.
C9_Witness ==
    /\ exitRan
    /\ last.how = "run"
    /\ fail_condition_triggered

\* C10: on an update of the signal from old to new, with the conditions
\* armed on it: while a trigger is pending, flag and path stay as they are;
\* otherwise the flag is set exactly when (old - T) * (new - T) <= 0 for one
\* of them, and the path recorded is that condition's recovery script.
C10_FiresExactlyOnCrossing ==
    [][nupdates' # nupdates =>
         LET d == "galil_rbv"
             live == {k \in 1..Len(subs) : subs[k].dev = d /\ subs[k].live}
             crossing == {k \in live : Crossed(sig[d], sig'[d], subs[k].target)}
         IN  IF fail_condition_triggered
             THEN fail_condition_triggered' /\ fail_script_path' = fail_script_path
             ELSE /\ fail_condition_triggered' <=> crossing # {}
                  /\ crossing # {} =>
                        \E k \in crossing :
                           fail_script_path' = [set |-> TRUE, path |-> subs[k].script]]_vars

\* The arguments of the line of the top-level script executed last.
MainArgs == Tail(tokenize_command(Strip(fs.main[last.idx])))

\* The subscriptions that still deliver updates of the signal named pv.
LiveOn(pv) == {k \in 1..Len(subs) : subs[k].pv = pv /\ subs[k].live}

\* C11: after failifoff has been executed for a name, no callback is
\* subscribed for that name, the registry has no entry for it, and the script
\* goes on (for a name with an active condition as for one without).
C11_FailifoffDisarms ==
    (Executed(CmdFailifoff) /\ last.inv = 1)
        => /\ status # "crashed"
           /\ LiveOn(MainArgs[1]) = {}
           /\ \A e \in active_failif_conditions : e.pv # MainArgs[1]

\* C12: while the session runs, no name has two live subscriptions and
\* every live subscription is the one its name's registry entry records.
C12_OneSubscriptionPerName ==
    status # "crashed"
        => \A k \in 1..Len(subs) :
              subs[k].live =>
                 /\ LiveOn(subs[k].pv) = {k}
                 /\ \E e \in active_failif_conditions : e.pv = subs[k].pv /\ e.cid = k

\* C13: failif on a name without a signal reports an error and arms nothing;
\* on a mapped name, whose signal exists, it leaves the condition registered
\* with a live subscription whose baseline is the signal's value.
C13_FailifArmsEveryMappedName ==
    (Executed(CmdFailif) /\ last.inv = 1 /\ Len(MainArgs) = 3)
        => IF name_to_device(MainArgs[1]) = "none"
           THEN /\ last.report = "error"
                /\ LiveOn(MainArgs[1]) = {}
                /\ \A e \in active_failif_conditions : e.pv # MainArgs[1]
           ELSE /\ last.report = "none"
                /\ \E e \in active_failif_conditions :
                      /\ e.pv = MainArgs[1]
                      /\ e.cid \in LiveOn(MainArgs[1])

\* Task t can still write a row: it has not returned, and the event it
\* tests, or will read from the context, is not set.
AbleToWrite(t) == tasks[t].pc # "exited" /\ ~events[stop_event(t)]

\* The rows of the log file that are data rows.
DataRows == {i \in 1..Len(log_file) : log_file[i].kind = "row"}

\* C14: at most one sampling task is able to write to the log file, and no
\* task writes a row after a task started later has written one.
C14_OneSamplingTask ==
    /\ \A t, u \in 1..Len(tasks) : (AbleToWrite(t) /\ AbleToWrite(u)) => t = u
    /\ \A i, j \in DataRows : i < j => log_file[i].task <= log_file[j].task

RECURSIVE TotalTicks(_)
TotalTicks(n) == IF n = 0 THEN 0 ELSE tasks[n].ticks + TotalTicks(n - 1)

\* C19: the log file, once it exists, has one header row, its first row,
\* written by the tick that found the file absent, and one data row for every tick
\* of every task.
C19_OneHeaderOneRowPerTick ==
    /\ log_file = <<>> => TotalTicks(Len(tasks)) = 0
    /\ log_file # <<>> =>
          /\ log_file[1].kind = "header"
          /\ log_file[2].kind = "row" /\ log_file[2].task = log_file[1].task
          /\ \A i \in 2..Len(log_file) : log_file[i].kind = "row"
          /\ Len(log_file) = 1 + TotalTicks(Len(tasks))
          /\ \A t \in 1..Len(tasks) :
                Cardinality({i \in DataRows : log_file[i].task = t}) = tasks[t].ticks

\* Ticks of two tasks interleaved in the file: a row of one task between
\* two rows of another.
C19_Witness ==
    \E i, j, k \in DataRows :
        /\ i < j /\ j < k
        /\ log_file[i].task = log_file[k].task
        /\ log_file[j].task # log_file[i].task

\* C15: once a wait has timed out, the script that contains it executes
\* nothing more: the timeout is the last effect, no generator of the script
\* is left and neither a line nor a step boundary follows.
C15_TimeoutIsFatal ==
    last.report = "TimeoutError"
        => /\ status = "crashed"
           /\ stack = <<>>
           /\ ~ENABLED (ExecCommand \/ ExecRun \/ ExecWait \/ WaitDone \/ WaitTimeout
                         \/ Advance \/ Return)

\* A wait that timed out in a script started by run.
C15_Witness ==
    /\ last.report = "TimeoutError"
    /\ last.how = "run"
    /\ Count(<<1, 1>>) = 1

\* The condition the script line states: the signal value compared with the
\* number written in the line.
WrittenCondition(tokens) ==
    LET w == WaitParams(tokens)
    IN  compare(sig[w.signal], w.value, w.operator, w.tolerance)

\* C18: a wait ends as satisfied only when the signal value compares with
\* the target written in the line as the operator and the tolerance say
\* (waitdi: equal to the integer target), and it times out only when it
\* does not.
C18_WaitComparesWithWrittenTarget ==
    [][/\ (last.msg = "waiting" /\ last'.msg = "wait") => WrittenCondition(Tokens)
       /\ (last.msg = "waiting" /\ last'.report = "TimeoutError")
             => ~WrittenCondition(Tokens)]_vars

\* The line executed last is blank or begins with `#`.
NoOpLine ==
    /\ last.kind = "exec"
    /\ \/ last.cls \in {"blank", "comment"}
       \/ last.cls = "unknown" /\ last.cmd[1] = "#"

\* C16: a blank line or a line beginning with `#` yields exactly one null
\* step and reports nothing, at the top level and in a loop body.
C16_NoOpLineYieldsOneStep ==
    NoOpLine => (last.msg = "null" /\ last.report = "none")

\* The tokens of a line read from the left: separators (whitespace, comma)
\* are skipped; a double quote that a later double quote closes around at
\* least one character gives the characters between them; anything else
\* gives the longest run of characters that are not separators.
Separator(c) == c \in Whitespace \cup {","}

RECURSIVE ClosingQuote(_)
ClosingQuote(rest) ==
    IF rest = <<>> THEN 0
    ELSE IF Head(rest) = "\"" THEN 1
    ELSE IF ClosingQuote(Tail(rest)) = 0 THEN 0
    ELSE 1 + ClosingQuote(Tail(rest))

RECURSIVE LongestRun(_)
LongestRun(line) ==
    IF line = <<>> \/ Separator(Head(line)) THEN <<>>
    ELSE <<Head(line)>> \o LongestRun(Tail(line))

Drop(line, n) == SubSeq(line, n + 1, Len(line))

RECURSIVE TokensOf(_)
TokensOf(line) ==
    IF line = <<>> THEN <<>>
    ELSE IF Separator(Head(line)) THEN TokensOf(Tail(line))
    ELSE IF Head(line) = "\"" /\ ClosingQuote(Tail(line)) > 1
    THEN <<SubSeq(line, 2, ClosingQuote(Tail(line)))>>
            \o TokensOf(Drop(line, ClosingQuote(Tail(line)) + 1))
    ELSE <<LongestRun(line)>> \o TokensOf(Drop(line, Len(LongestRun(line))))

\* C17: the tokenizer returns the tokens of the line in left-to-right order,
\* quoted segments without their quotes and with their spaces, runs whole,
\* and no empty token; `set "My Device" 5` gives set, My Device, 5.
C17_TokenizerTokens ==
    probe.done
        => /\ probe.result = TokensOf(probe.line)
           /\ \A k \in 1..Len(probe.result) : probe.result[k] # <<>>
           /\ probe.line = ExampleLine
                 => probe.result = <<<<"s", "e", "t">>, <<"M", "y", " ", "D", "e", "v", "i", "c", "e">>, <<"5">>>>

\* A line with a quoted segment that holds a space, a comma and a run.
C17_Witness ==
    /\ probe.done
    /\ Len(probe.result) = 2
    /\ \E k \in 1..2 : \E j \in 1..Len(probe.result[k]) : probe.result[k][j] = " "
    /\ \E j \in 1..Len(probe.line) : probe.line[j] = ","

\* C20: every command of the table is invoked, each declared parameter
\* receiving the input of its own name, one of the three inputs dispatch
\* holds; a name outside the table raises CommandNotFound.
C20_DispatchPassesDeclaredInputs ==
    probe.done
        => IF probe.command \in megatron_commands
           THEN /\ probe.result.outcome = "invoked"
                /\ Len(probe.result.bound) = Len(params(probe.command))
                /\ \A k \in 1..Len(probe.result.bound) :
                      /\ probe.result.bound[k][1] = probe.result.bound[k][2]
                      /\ probe.result.bound[k][2] \in kwargs
           ELSE probe.result.outcome = "CommandNotFound"

\* The engine finds the flag set, clears it and reads the path.
Diverts == nextInv' = nextInv + 1 /\ last'.kind = "divert"

\* C21: under every interleaving of the callback with the script thread, when
\* the engine finds the flag set and diverts, the path it reads is set and is
\* the path of the callback that set the flag: that callback has stored it.
C21_DivertReadsTriggersPath ==
    [][Diverts =>
         /\ firing.recorded
         /\ fail_script_path.set
         /\ fail_script_path.path = firing.script]_vars

\* What a run shows of an effect: a step yielded, an error printed, a handler
\* called, a test of the flag, a diversion.
Observable(e) ==
    \/ e.kind = "exec" /\ (e.msg # "none" \/ e.report # "none" \/ e.cls = "command")
    \/ e.kind = "boundary" /\ e.check
    \/ e.kind = "divert"

\* The effects of the lines B run as a script of their own (the second
\* execute_script call), and as the body of `l1` (the third call, without
\* the loop line's own effects).
TopLevelEffects == SelectSeq(last.hist, LAMBDA e : e.inv = 2 /\ Observable(e))
LoopBodyEffects ==
    SelectSeq(last.hist,
              LAMBDA e : e.inv = 3 /\ Observable(e) /\ e.cls \notin {"loop", "ret_loop"})

SameEffect(a, b) ==
    /\ a.kind = b.kind
    /\ a.cmd = b.cmd
    /\ a.report = b.report
    /\ a.msg = b.msg
    /\ a.check = b.check

\* C22: when the run is over, the lines B have produced as the body of `l1`
\* the same sequence of handler calls, steps, error reports and flag checks
\* as they produced at top level.
C22_LoopBodyMatchesTopLevel ==
    status = "done" =>
        /\ Len(LoopBodyEffects) = Len(TopLevelEffects)
        /\ \A k \in 1..Len(TopLevelEffects) :
              SameEffect(LoopBodyEffects[k], TopLevelEffects[k])

====
